---- MODULE Spec2Model ----
(***************************************************************************)
(* munzip: a reader of single-disk ZIP archives (src/src/lib.rs).          *)
(*                                                                         *)
(* The stream is modelled at the level of bytes: the records of an archive *)
(* are laid out as little-endian bytes and the reader decodes them again,  *)
(* field by field, at the offsets of the packed structs of types.rs.       *)
(* The archive comment (up to 65535 bytes) is kept sparse: zero bytes with *)
(* one optional island of other bytes.                                     *)
(*                                                                         *)
(* The stream is a regular file: seeks do not fail, a read fails only at   *)
(* end of file.  The target is little-endian, so that reading a packed     *)
(* struct from a byte buffer decodes little-endian fields.                 *)
(***************************************************************************)
EXTENDS Integers, Sequences, FiniteSets, TLC

VARIABLES
    zip,        \* the open file: its bytes
    input,      \* how the bytes of zip were laid out (not read by the program)
    cursor,     \* the position of the file handle
    it,         \* "none": before ZipIterator::new, "live": constructed, "failed": new returned Err
    new_err,    \* the error ZipIterator::new returned, or NoError
    end_rec,    \* ZipIterator.end_rec
    next_entry, \* ZipIterator.next_entry
    filename,   \* ZipIterator.filename: Option<String>
    jz_buffer,  \* the process-wide scratch buffer
    items,      \* what the calls of next returned so far, Some(_) items only
    ended,      \* the last call of next returned None
    calls,      \* number of calls of next so far
    lock,       \* the mutex of the scratch buffer: "free", or the thread that holds it
    locks,      \* number of times the mutex was locked so far
    pc          \* where a thread is: "idle" between calls, or within a locked region

vars == <<zip, input, cursor, it, new_err, end_rec, next_entry, filename,
          jz_buffer, items, ended, calls, lock, locks, pc>>

----------------------------------------------------------------------------
(* Bounds of the model. *)

\* most entries of a generated archive
MaxEntries == 2
\* most calls of next in one behaviour
MaxCalls == 4
\* raw files have a length within RawSlack of the end-record size
RawSlack == 2
\* longest output the inflate function returns in the model
MaxInflated == 2
\* most calls of next by one thread, when several threads run
MaxThreadCalls == 2

----------------------------------------------------------------------------
(* Program constants. *)

JZ_BUFFER_SIZE == 65536
JZ_END_RECORD_SIGNATURE == 101010256
JZ_GLOBAL_FILE_HEADER_SIGNATURE == 33639248
JZ_LOCAL_FILE_HEADER_SIGNATURE == 67324752

\* std::mem::size_of of the packed structs
EndRecordSize == 22
LocalFileHeaderSize == 30
GlobalFileHeaderSize == 46

\* largest value of a u16 field
U16Max == 65535

----------------------------------------------------------------------------
(* Bytes and little-endian fields. *)

Min(a, b) == IF a < b THEN a ELSE b

SetMax(s) == CHOOSE m \in s : \A k \in s : k <= m

\* the u16 at byte offset off (0-based) of the byte sequence b
U16At(b, off) == b[off + 1] + 256 * b[off + 2]

\* The u32 made of four bytes, lowest first.  The integers of the model
\* checker have 32 bits, so a u32 of 2^31 or more is held as the negative
\* number with the same 32 bits: equal u32 are equal here, and conversely.
U32(b0, b1, b2, b3) ==
    b0 + 256 * b1 + 65536 * b2 + 16777216 * (IF b3 >= 128 THEN b3 - 256 ELSE b3)

\* the u32 at byte offset off (0-based) of the byte sequence b
U32At(b, off) == U32(b[off + 1], b[off + 2], b[off + 3], b[off + 4])

\* A position beyond the end of every file of the model.
Far == 1073741824

\* A u32 as a u64 or usize (a length, an offset).  One of 2^31 or more is
\* beyond the end of every file of the model, and is held as Far: a read of
\* so many bytes, or at such an offset, meets the end of the file.
Wide(u) == IF u < 0 THEN Far ELSE u

LE16(n) == << n % 256, (n \div 256) % 256 >>

LE32(n) == << n % 256, (n \div 256) % 256, (n \div 65536) % 256,
              (n \div 16777216) % 256 >>

Zeros(n) == [i \in 1..n |-> 0]

----------------------------------------------------------------------------
(* The file. *)

\* zip = [body, run, clen, spur, island]: the bytes of body, with run.len
\* bytes of value run.byte put in at offset run.at, then clen comment bytes,
\* all zero but for the bytes of island at comment offset spur.
NoRun == [at |-> 0, len |-> 0, byte |-> 0]

FileSize(f) == Len(f.body) + f.run.len + f.clen

CommentByte(f, q) ==
    IF q >= f.spur /\ q < f.spur + Len(f.island)
    THEN f.island[q - f.spur + 1]
    ELSE 0

ByteAt(f, p) ==
    IF p < f.run.at THEN f.body[p + 1]
    ELSE IF p < f.run.at + f.run.len THEN f.run.byte
    ELSE IF p < Len(f.body) + f.run.len THEN f.body[p - f.run.len + 1]
    ELSE CommentByte(f, p - Len(f.body) - f.run.len)

\* File::read_exact of n bytes at pos: the bytes and the new position, or
\* an UnexpectedEof error with the handle left at end of file.
read_exact(f, pos, n) ==
    IF pos + n <= FileSize(f)
    THEN [ok |-> TRUE, data |-> [i \in 1..n |-> ByteAt(f, pos + i - 1)],
          pos |-> pos + n]
    ELSE [ok |-> FALSE, data |-> <<>>,
          pos |-> IF pos < FileSize(f) THEN FileSize(f) ELSE pos]

\* File::read into a zeroed buffer of n bytes at pos: as many bytes as the
\* file still has, the rest of the buffer left zero.
read(f, pos, n) ==
    LET avail == IF pos < FileSize(f) THEN Min(n, FileSize(f) - pos) ELSE 0
    IN  [data |-> [i \in 1..n |-> IF i <= avail THEN ByteAt(f, pos + i - 1) ELSE 0],
         pos |-> pos + avail]

----------------------------------------------------------------------------
(* Errors: MZError is a wrapper of a message. *)

MZError(msg) == [ok |-> FALSE, msg |-> msg]

NoError == [ok |-> TRUE, msg |-> ""]

\* std::io::Error of kind UnexpectedEof, as its to_string
IoEofMsg == "failed to fill whole buffer"

\* std::str::Utf8Error, as its to_string (the position is left out)
Utf8Msg == "invalid utf-8 sequence"

\* the String error of inflate::inflate_bytes
InflateMsg == "inflate failed"

UnsupportedMsg(method) ==
    "compression method " \o ToString(method) \o " not supported"

----------------------------------------------------------------------------
(* std::str::from_utf8: whether the bytes are well-formed UTF-8. *)

IsCont(b) == b >= 128 /\ b <= 191

\* the length of the well-formed UTF-8 sequence starting at index i of b,
\* or 0 when none starts there
Utf8SeqLen(b, i) ==
    LET n  == Len(b)
        b0 == b[i]
        c1 == IF i + 1 <= n THEN b[i + 1] ELSE 0
        c2 == IF i + 2 <= n THEN b[i + 2] ELSE 0
        c3 == IF i + 3 <= n THEN b[i + 3] ELSE 0
    IN  IF b0 <= 127 THEN 1
        ELSE IF b0 >= 194 /\ b0 <= 223
             THEN IF IsCont(c1) THEN 2 ELSE 0
        ELSE IF b0 = 224
             THEN IF c1 >= 160 /\ c1 <= 191 /\ IsCont(c2) THEN 3 ELSE 0
        ELSE IF (b0 >= 225 /\ b0 <= 236) \/ b0 = 238 \/ b0 = 239
             THEN IF IsCont(c1) /\ IsCont(c2) THEN 3 ELSE 0
        ELSE IF b0 = 237
             THEN IF c1 >= 128 /\ c1 <= 159 /\ IsCont(c2) THEN 3 ELSE 0
        ELSE IF b0 = 240
             THEN IF c1 >= 144 /\ c1 <= 191 /\ IsCont(c2) /\ IsCont(c3) THEN 4 ELSE 0
        ELSE IF b0 >= 241 /\ b0 <= 243
             THEN IF IsCont(c1) /\ IsCont(c2) /\ IsCont(c3) THEN 4 ELSE 0
        ELSE IF b0 = 244
             THEN IF c1 >= 128 /\ c1 <= 143 /\ IsCont(c2) /\ IsCont(c3) THEN 4 ELSE 0
        ELSE 0

RECURSIVE Utf8ValidFrom(_, _)
Utf8ValidFrom(b, i) ==
    IF i > Len(b) THEN TRUE
    ELSE LET k == Utf8SeqLen(b, i)
         IN  IF k = 0 THEN FALSE ELSE Utf8ValidFrom(b, i + k)

from_utf8_ok(b) == Utf8ValidFrom(b, 1)

----------------------------------------------------------------------------
(* The packed structs of types.rs, read from a byte buffer. *)

DecodeEndRecord(b) ==
    [signature                     |-> U32At(b, 0),
     disk_number                   |-> U16At(b, 4),
     central_directory_disk_number |-> U16At(b, 6),
     num_entries_this_disk         |-> U16At(b, 8),
     num_entries                   |-> U16At(b, 10),
     central_directory_size        |-> U32At(b, 12),
     central_directory_offset      |-> U32At(b, 16),
     zip_comment_length            |-> U16At(b, 20)]

DecodeLocalFileHeader(b) ==
    [signature          |-> U32At(b, 0),
     compression_method |-> U16At(b, 8),
     last_mod_file_time |-> U16At(b, 10),
     last_mod_file_date |-> U16At(b, 12),
     crc32              |-> U32At(b, 14),
     compressed_size    |-> U32At(b, 18),
     uncompressed_size  |-> U32At(b, 22),
     file_name_length   |-> U16At(b, 26),
     extra_field_length |-> U16At(b, 28)]

DecodeGlobalFileHeader(b) ==
    [signature           |-> U32At(b, 0),
     compression_method  |-> U16At(b, 10),
     last_mod_file_time  |-> U16At(b, 12),
     last_mod_file_date  |-> U16At(b, 14),
     crc32               |-> U32At(b, 16),
     compressed_size     |-> U32At(b, 20),
     uncompressed_size   |-> U32At(b, 24),
     file_name_length    |-> U16At(b, 28),
     extra_field_length  |-> U16At(b, 30),
     file_comment_length |-> U16At(b, 32),
     relative_offset_of_local_header |-> U32At(b, 42)]

\* the value of end_rec before ZipIterator::new has set it
NoEndRecord == DecodeEndRecord(Zeros(EndRecordSize))

----------------------------------------------------------------------------
(* The scratch buffer: [win_off, win_len, over].  Byte i is over[i + 1]   *)
(* for i < Len(over), else the file's byte win_off + i for i < win_len,    *)
(* else 0: the tail window jz_read_end_record read, under the filename     *)
(* bytes the calls of next wrote over its start.                           *)

buffer == [win_off |-> 0, win_len |-> 0, over |-> <<>>]

BufferByte(f, buf, i) ==
    IF i < Len(buf.over) THEN buf.over[i + 1]
    ELSE IF i < buf.win_len THEN ByteAt(f, buf.win_off + i)
    ELSE 0

----------------------------------------------------------------------------
(* jz_read_end_record *)

\* the signature of the window of the buffer slice that starts at index i
NodeSignature(f, off, i) ==
    U32(ByteAt(f, off + i), ByteAt(f, off + i + 1), ByteAt(f, off + i + 2),
        ByteAt(f, off + i + 3))

\* the loop over (0..=len - record_sz).rev(): the index of the first window
\* met, from the last, whose signature is the end record's; -1 when none
ScanEndRecord(f, off, len) ==
    LET hits == {i \in 0..(len - EndRecordSize) :
                    NodeSignature(f, off, i) = JZ_END_RECORD_SIGNATURE}
    IN  IF hits = {} THEN -1 ELSE SetMax(hits)

\* the number of bytes of the tail of the file read into the buffer
ReadBytes(file_size) ==
    IF file_size < JZ_BUFFER_SIZE THEN file_size ELSE JZ_BUFFER_SIZE

\* (mutant) a file of exactly the size of an end record is let through
FileTooSmall_lt(file_size) == file_size < EndRecordSize

\* whether the file is too small to hold an end record
FileTooSmall(file_size) == file_size <= EndRecordSize

\* (mutant) the two entry counts are not compared
MultiDisk_nocount(end_record) ==
    \/ end_record.disk_number # 0
    \/ end_record.central_directory_disk_number # 0

\* whether the end record is one of a multi-disk archive
MultiDisk(end_record) ==
    \/ end_record.disk_number # 0
    \/ end_record.central_directory_disk_number # 0
    \/ end_record.num_entries # end_record.num_entries_this_disk

\* the result, the position the handle is left at and the scratch buffer
jz_read_end_record(f, buf) ==
    LET file_size  == FileSize(f)
        read_bytes == ReadBytes(file_size)
        off        == file_size - read_bytes
        i          == ScanEndRecord(f, off, read_bytes)
        window     == [win_off |-> off, win_len |-> read_bytes, over |-> <<>>]
        end_record == DecodeEndRecord(
                          [k \in 1..EndRecordSize |-> ByteAt(f, off + i + k - 1)])
    IN  IF FileTooSmall(file_size)
        THEN [res |-> MZError("input file too small"), rec |-> NoEndRecord,
              pos |-> file_size, buf |-> buf]
        ELSE IF i = -1
        THEN [res |-> MZError("end record signature not found in zip"),
              rec |-> NoEndRecord, pos |-> file_size, buf |-> window]
        ELSE IF MultiDisk(end_record)
        THEN [res |-> MZError("multifile zips not supported!"),
              rec |-> NoEndRecord, pos |-> file_size, buf |-> window]
        ELSE [res |-> NoError, rec |-> end_record, pos |-> file_size,
              buf |-> window]

----------------------------------------------------------------------------
(* jz_read_local_file_header_raw, jz_read_local_file_header *)

\* whether the local header's signature is the local file header's
LocalSignatureOk(header) == header.signature = JZ_LOCAL_FILE_HEADER_SIGNATURE

\* whether a stored entry's two sizes disagree
StoredSizeMismatch(header) ==
    header.compression_method = 0
    /\ header.compressed_size # header.uncompressed_size

\* (mutant) the extra field is not skipped
SkipExtraField_none(header, pos) == pos

\* the handle, at pos after the filename, moved past the extra field
SkipExtraField(header, pos) ==
    IF header.extra_field_length # 0
    THEN pos + header.extra_field_length
    ELSE pos

\* what jz_read_local_file_header_raw returns
RawResult(res, header, name, pos) ==
    [res |-> res, header |-> header, filename |-> name, pos |-> pos]

\* the header of a failed read
NoLocalHeader == DecodeLocalFileHeader(Zeros(LocalFileHeaderSize))

\* after the filename was read (r2): the conversion to a string, the skip of
\* the extra field, the check of a stored entry's sizes
LocalHeaderName(header, r2) ==
    IF ~r2.ok
    THEN RawResult(MZError(IoEofMsg), NoLocalHeader, <<>>, r2.pos)
    ELSE IF ~from_utf8_ok(r2.data)
    THEN RawResult(MZError(Utf8Msg), NoLocalHeader, <<>>, r2.pos)
    ELSE IF StoredSizeMismatch(header)
    THEN RawResult(MZError("invalid local file header signature"),
                   NoLocalHeader, <<>>, SkipExtraField(header, r2.pos))
    ELSE RawResult(NoError, header, r2.data, SkipExtraField(header, r2.pos))

\* after the header was decoded, the handle at pos: the check of the
\* signature and the read of the filename
LocalHeaderSignature(f, header, pos) ==
    IF ~LocalSignatureOk(header)
    THEN RawResult(MZError("invalid local file header signature"),
                   NoLocalHeader, <<>>, pos)
    ELSE LocalHeaderName(header, read_exact(f, pos, header.file_name_length))

\* after the read of the fixed part of the header (r1)
LocalHeaderFixed(f, r1) ==
    IF ~r1.ok
    THEN RawResult(MZError(IoEofMsg), NoLocalHeader, <<>>, r1.pos)
    ELSE LocalHeaderSignature(f, DecodeLocalFileHeader(r1.data), r1.pos)

\* the header and the filename read at pos, and where the handle is left
jz_read_local_file_header_raw(f, pos) ==
    LocalHeaderFixed(f, read_exact(f, pos, LocalFileHeaderSize))

\* JZFileHeader built from a local header: offset is 0
LocalToFileHeader(local_header) ==
    [compression_method |-> local_header.compression_method,
     last_mod_file_time |-> local_header.last_mod_file_time,
     last_mod_file_date |-> local_header.last_mod_file_date,
     crc32              |-> local_header.crc32,
     compressed_size    |-> local_header.compressed_size,
     uncompressed_size  |-> local_header.uncompressed_size,
     offset             |-> 0]

\* the raw result with its header made a JZFileHeader
FromRaw(raw) ==
    [res |-> raw.res, header |-> LocalToFileHeader(raw.header),
     filename |-> raw.filename, pos |-> raw.pos]

jz_read_local_file_header(f, pos) ==
    FromRaw(jz_read_local_file_header_raw(f, pos))

----------------------------------------------------------------------------
(* jz_read_data *)

\* what inflate::inflate_bytes, an external function, may return: a failure,
\* or bytes of any length (here up to MaxInflated, each byte 119)
InflateResults ==
    {[ok |-> FALSE, data |-> <<>>]}
    \cup {[ok |-> TRUE, data |-> [i \in 1..n |-> 119]] : n \in 0..MaxInflated}

\* (mutant) every method but Store is taken for Deflate
IsDeflate_any(header) == header.compression_method # 0

\* whether the entry is deflated
IsDeflate(header) == header.compression_method = 8

\* the number of bytes read from the file for a stored entry
StoreReadLen(header) == Wide(header.uncompressed_size)

\* the number of bytes read from the file for a deflated entry
DeflateReadLen(header) == Wide(header.compressed_size)

\* what jz_read_data returns, and where the handle is left
DataResult(res, data, pos) == [res |-> res, data |-> data, pos |-> pos]

\* Store: the bytes as they were read (r)
StoredData(r) ==
    IF r.ok
    THEN DataResult(NoError, r.data, r.pos)
    ELSE DataResult(MZError(IoEofMsg), <<>>, r.pos)

\* Deflate: what inflate_bytes made of the bytes read (r)
DeflatedData(r, inflated) ==
    IF ~r.ok
    THEN DataResult(MZError(IoEofMsg), <<>>, r.pos)
    ELSE IF ~inflated.ok
    THEN DataResult(MZError(InflateMsg), <<>>, r.pos)
    ELSE DataResult(NoError, inflated.data, r.pos)

\* the payload at pos decoded as header says; inflated is what
\* inflate_bytes returns for the bytes read
jz_read_data(f, pos, header, inflated) ==
    IF header.compression_method = 0
    THEN StoredData(read_exact(f, pos, StoreReadLen(header)))
    ELSE IF IsDeflate(header)
    THEN DeflatedData(read_exact(f, pos, DeflateReadLen(header)), inflated)
    ELSE DataResult(MZError(UnsupportedMsg(header.compression_method)),
                    <<>>, pos)

----------------------------------------------------------------------------
(* ZipIterator *)

None == [some |-> FALSE, s |-> <<>>]

Some(s) == [some |-> TRUE, s |-> s]

\* what process_file and record_callback return, self.filename and where
\* the handle is left
FileResult(res, data, fname, pos) ==
    [res |-> res, data |-> data, filename |-> fname, pos |-> pos]

\* process_file after jz_read_data (jzr): self.filename is set on success
ProcessData(jzr, name, fname) ==
    IF ~jzr.res.ok
    THEN FileResult(jzr.res, <<>>, fname, jzr.pos)
    ELSE FileResult(NoError, jzr.data, Some(name), jzr.pos)

\* process_file after jz_read_local_file_header (lh)
ProcessHeader(f, lh, fname, inflated) ==
    IF ~lh.res.ok
    THEN FileResult(lh.res, <<>>, fname, lh.pos)
    ELSE ProcessData(jz_read_data(f, lh.pos, lh.header, inflated),
                     lh.filename, fname)

\* ZipIterator::process_file with the handle at pos
process_file(f, pos, fname, inflated) ==
    ProcessHeader(f, jz_read_local_file_header(f, pos), fname, inflated)

\* record_callback after process_file (ret): the handle is put back at
\* offset on success only
RestoreCursor(ret, offset) ==
    IF ~ret.res.ok
    THEN ret
    ELSE FileResult(NoError, ret.data, ret.filename, offset)

\* ZipIterator::record_callback with the handle at pos
record_callback(f, pos, header, fname, inflated) ==
    RestoreCursor(process_file(f, Wide(header.offset), fname, inflated), pos)

\* JZFileHeader built from a central-directory record
GlobalToFileHeader(file_header) ==
    [compression_method |-> file_header.compression_method,
     last_mod_file_time |-> file_header.last_mod_file_time,
     last_mod_file_date |-> file_header.last_mod_file_date,
     crc32              |-> file_header.crc32,
     compressed_size    |-> file_header.compressed_size,
     uncompressed_size  |-> file_header.uncompressed_size,
     offset             |-> file_header.relative_offset_of_local_header]

\* whether the filename of a central-directory record is too long
FilenameTooLong(file_header) ==
    file_header.file_name_length + 1 >= JZ_BUFFER_SIZE

\* the scratch buffer with the filename bytes and a terminator written at
\* its start
WriteFilename(buf, name) ==
    [buf EXCEPT !.over =
        name \o <<0>> \o SubSeq(buf.over, Len(name) + 2, Len(buf.over))]

\* (mutant) next_entry advanced by two
Advance_two(n) == n + 2

\* next_entry after a successful step
Advance(n) == n + 1

\* what a call of next returns: kind is "none", "item" or "panic"
Ret(kind, item, pos, ne, fname, buf) ==
    [kind |-> kind, item |-> item, pos |-> pos, next_entry |-> ne,
     filename |-> fname, buf |-> buf]

\* (mutant) the filename taken from the scratch buffer
NextYield_buffer(header, cb, ne, buf2) ==
    IF ~cb.res.ok
    THEN Ret("item", cb.res, cb.pos, ne, cb.filename, buf2)
    ELSE Ret("item",
             [ok |-> TRUE, header |-> header, buffer |-> cb.data,
              filename |-> SubSeq(buf2.over, 1, Len(cb.filename.s))],
             cb.pos, Advance(ne), cb.filename, buf2)

\* (mutant) next_entry advanced whatever record_callback returned
NextYield_always(header, cb, ne, buf2) ==
    IF ~cb.res.ok
    THEN Ret("item", cb.res, cb.pos, Advance(ne), cb.filename, buf2)
    ELSE Ret("item",
             [ok |-> TRUE, header |-> header, buffer |-> cb.data,
              filename |-> cb.filename.s],
             cb.pos, Advance(ne), cb.filename, buf2)

\* next after record_callback (cb): the entry, or the error
NextYield(header, cb, ne, buf2) ==
    IF ~cb.res.ok
    THEN Ret("item", cb.res, cb.pos, ne, cb.filename, buf2)
    ELSE Ret("item",
             [ok |-> TRUE, header |-> header, buffer |-> cb.data,
              filename |-> cb.filename.s],
             cb.pos, Advance(ne), cb.filename, buf2)

\* next after the read of the filename (r2): the filename goes into the
\* scratch buffer, the extra field and the comment are skipped
NextName(f, file_header, r2, ne, fname, buf, inflated) ==
    NextYield(GlobalToFileHeader(file_header),
              record_callback(f,
                              r2.pos + file_header.extra_field_length
                                     + file_header.file_comment_length,
                              GlobalToFileHeader(file_header), fname, inflated),
              ne, WriteFilename(buf, r2.data))

\* next after the record was decoded, the handle at pos
NextRecord(f, file_header, pos, ne, fname, buf, inflated) ==
    IF file_header.signature # JZ_GLOBAL_FILE_HEADER_SIGNATURE
    THEN Ret("item", MZError("invalid global file header signature"),
             pos, ne, fname, buf)
    ELSE IF FilenameTooLong(file_header)
    THEN Ret("item", MZError("file name too long"), pos, ne, fname, buf)
    ELSE NextName(f, file_header, read(f, pos, file_header.file_name_length),
                  ne, fname, buf, inflated)

\* next after the read of the fixed part of the record (r1)
NextFixed(f, r1, ne, fname, buf, inflated) ==
    IF ~r1.ok
    THEN Ret("item", MZError(IoEofMsg), r1.pos, ne, fname, buf)
    ELSE NextRecord(f, DecodeGlobalFileHeader(r1.data), r1.pos, ne, fname,
                    buf, inflated)

\* (mutant) the mutex locked on entry, before the two early returns
NextLocks_first(er, ne) == TRUE

\* whether a call of next gets to buffer().lock(): past the two early returns
NextLocks(er, ne) == ~(ne > er.num_entries) /\ ~(ne = er.num_entries)

\* Iterator::next of ZipIterator
ZipIterator_next(f, pos, er, ne, fname, buf, inflated) ==
    IF ne > er.num_entries
    THEN Ret("panic", NoError, pos, ne, fname, buf)
    ELSE IF ne = er.num_entries
    THEN Ret("none", NoError, pos, ne, fname, buf)
    ELSE NextFixed(f, read_exact(f, pos, GlobalFileHeaderSize), ne, fname,
                   buf, inflated)

----------------------------------------------------------------------------
(* Archives: the bytes of the records, as the layouts of types.rs. *)

\* One entry of an archive: the fields of its local header (l...), its
\* payload bytes (data) and the fields of its central-directory record
\* (g...).  content is what the entry decodes to when it is well-formed (wf).
Entry(name, method, data, content, lextra, gextra, gcomment) ==
    [lsig |-> JZ_LOCAL_FILE_HEADER_SIGNATURE, lmethod |-> method,
     lcsize |-> Len(data), lusize |-> Len(content), lname |-> name,
     lextra |-> lextra, data |-> data,
     gsig |-> JZ_GLOBAL_FILE_HEADER_SIGNATURE, gmethod |-> method,
     gcsize |-> Len(data), gusize |-> Len(content), gname |-> name,
     gfnl |-> Len(name), gextra |-> gextra, gcomment |-> gcomment,
     content |-> content, wf |-> TRUE]

\* "a", stored, "hi"
StoredA == Entry(<<97>>, 0, <<104, 105>>, <<104, 105>>, 0, 0, 0)
\* "e" with an acute accent (two bytes of UTF-8), stored, "x", with extra
\* fields and a comment
StoredB == Entry(<<195, 169>>, 0, <<120>>, <<120>>, 2, 1, 1)
\* "c", deflated: three payload bytes that inflate to two bytes
DeflatedC == Entry(<<99>>, 8, <<75, 76, 77>>, <<119, 119>>, 0, 0, 0)

WellFormedEntries == {StoredA, StoredB, DeflatedC}

\* entries that are not well-formed, or whose two headers disagree
BadLocalSignature == [StoredA EXCEPT !.lsig = 67324753, !.wf = FALSE]
Method99 == [StoredA EXCEPT !.lmethod = 99, !.gmethod = 99, !.wf = FALSE]
StoredMismatch == [StoredA EXCEPT !.lcsize = 1, !.gcsize = 1, !.wf = FALSE]
BadLocalName == [StoredA EXCEPT !.lname = <<255>>, !.gname = <<255>>, !.wf = FALSE]
Disagree == [StoredA EXCEPT !.gmethod = 99, !.gusize = 7, !.gcsize = 7,
                            !.gname = <<122>>, !.wf = FALSE]
\* the record says stored, the local header deflated
DisagreeDeflated == [DeflatedC EXCEPT !.gmethod = 0, !.gusize = 3,
                                      !.gname = <<122>>, !.wf = FALSE]
BadGlobalName == [StoredA EXCEPT !.gname = <<255>>, !.wf = FALSE]
BadGlobalSignature == [StoredA EXCEPT !.gsig = 33639249, !.wf = FALSE]

BrokenEntries == {BadLocalSignature, Method99, StoredMismatch, BadLocalName,
                  Disagree, BadGlobalName, BadGlobalSignature}

Entries == WellFormedEntries \cup BrokenEntries

LocalBlock(e) ==
    LE32(e.lsig) \o LE16(20) \o LE16(0) \o LE16(e.lmethod) \o LE16(0) \o LE16(0)
    \o LE32(0) \o LE32(e.lcsize) \o LE32(e.lusize) \o LE16(Len(e.lname))
    \o LE16(e.lextra) \o e.lname \o Zeros(e.lextra) \o e.data

GlobalBlock(e, offset) ==
    LE32(e.gsig) \o LE16(20) \o LE16(20) \o LE16(0) \o LE16(e.gmethod)
    \o LE16(0) \o LE16(0) \o LE32(0) \o LE32(e.gcsize) \o LE32(e.gusize)
    \o LE16(e.gfnl) \o LE16(e.gextra) \o LE16(e.gcomment) \o LE16(0)
    \o LE16(0) \o LE32(0) \o LE32(offset) \o e.gname \o Zeros(e.gextra)
    \o Zeros(e.gcomment)

EndBlock(disk, cd_disk, this_disk, total, cd_size, cd_offset, clen) ==
    LE32(JZ_END_RECORD_SIGNATURE) \o LE16(disk) \o LE16(cd_disk)
    \o LE16(this_disk) \o LE16(total) \o LE32(cd_size) \o LE32(cd_offset)
    \o LE16(clen)

\* the place of the i-th entry's local block in the file: in the order of
\* the central directory, or in the reverse order
PhysicalRank(n, rev, i) == IF rev THEN n + 1 - i ELSE i

RECURSIVE SumLen(_, _)
SumLen(blocks, k) == IF k = 0 THEN 0 ELSE Len(blocks[k]) + SumLen(blocks, k - 1)

RECURSIVE Concat(_, _)
Concat(blocks, k) == IF k = 0 THEN <<>> ELSE Concat(blocks, k - 1) \o blocks[k]

\* the offset of the local header of the i-th entry of the central directory
LocalOffset(es, rev, i) ==
    LET n      == Len(es)
        blocks == [r \in 1..n |-> LocalBlock(es[PhysicalRank(n, rev, r)])]
    IN  SumLen(blocks, PhysicalRank(n, rev, i) - 1)

\* the offset of the payload of the i-th entry
PayloadOffset(es, rev, i) ==
    LocalOffset(es, rev, i) + LocalFileHeaderSize + Len(es[i].lname) + es[i].lextra

\* the bytes of an archive up to its comment
ArchiveBody(in) ==
    LET es     == in.entries
        n      == Len(es)
        locals == [r \in 1..n |-> LocalBlock(es[PhysicalRank(n, in.rev, r)])]
        cd     == [i \in 1..n |-> GlobalBlock(es[i], LocalOffset(es, in.rev, i))]
    IN  Concat(locals, n) \o Concat(cd, n)
        \o EndBlock(in.disk, in.cd_disk, n + in.this_disk_delta, n,
                    SumLen(cd, n) + in.name_run, SumLen(locals, n), in.clen)

\* the offset of the end record of an archive
EndRecordOffset(in) == Len(ArchiveBody(in)) + in.name_run - EndRecordSize

\* the offset of the i-th record of the central directory (i = n + 1: its end)
RecordOffset(in, i) ==
    LET es == in.entries
        n  == Len(es)
        locals == [r \in 1..n |-> LocalBlock(es[r])]
        cd     == [k \in 1..n |-> GlobalBlock(es[k], 0)]
    IN  SumLen(locals, n) + SumLen(cd, i - 1)
        + (IF i > 1 THEN in.name_run ELSE 0)

\* the filename of the first record of the central directory is name_run
\* bytes longer than its gname: so many more bytes "a" follow it
NameRun(in) ==
    [at   |-> RecordOffset(in, 1) + GlobalFileHeaderSize
              + Len(in.entries[1].gname),
     len  |-> in.name_run,
     byte |-> 97]

Archive(in) ==
    [body |-> ArchiveBody(in),
     run |-> IF in.name_run = 0 THEN NoRun ELSE NameRun(in),
     clen |-> in.clen, spur |-> in.spur, island |-> in.island]

WellFormed(in) ==
    /\ in.kind = "archive"
    /\ \A i \in 1..Len(in.entries) : in.entries[i].wf
    /\ in.disk = 0 /\ in.cd_disk = 0 /\ in.this_disk_delta = 0

----------------------------------------------------------------------------
(* The inputs. *)

RECURSIVE SeqsUpTo(_, _)
SeqsUpTo(S, n) ==
    IF n = 0 THEN {<<>>}
    ELSE LET shorter == SeqsUpTo(S, n - 1)
         IN  shorter \cup {Append(q, x) : q \in {p \in shorter : Len(p) = n - 1}, x \in S}

Input(es, rev, disk, cd_disk, delta, clen, spur, island) ==
    [kind |-> "archive", entries |-> es, rev |-> rev, disk |-> disk,
     cd_disk |-> cd_disk, this_disk_delta |-> delta, clen |-> clen,
     spur |-> spur, island |-> island, name_run |-> 0]

\* archives without a comment, of any entries, in both physical orders
PlainInputs ==
    {Input(es, rev, 0, 0, 0, 0, 0, <<>>) :
        es \in SeqsUpTo(Entries, MaxEntries), rev \in BOOLEAN}

\* the four bytes of the end record's signature
SignatureBytes == LE32(JZ_END_RECORD_SIGNATURE)

\* a whole end record of an archive of one entry at offset 0
FakeRecord == EndBlock(0, 0, 1, 1, 0, 0, 0)

\* comments: <<length, offset of the island, island>>
SmallComments ==
    {<<1, 0, <<>> >>, <<22, 0, <<>> >>,
     <<4, 0, SignatureBytes>>, <<21, 0, SignatureBytes>>,
     <<22, 0, SignatureBytes>>, <<30, 5, SignatureBytes>>,
     <<30, 12, SignatureBytes>>, <<22, 0, FakeRecord>>}

\* comments about as long as the scratch buffer, up to the longest
LargeComments ==
    {<<JZ_BUFFER_SIZE - EndRecordSize, 0, <<>> >>,
     <<JZ_BUFFER_SIZE - EndRecordSize + 1, 0, <<>> >>,
     <<U16Max, 0, <<>> >>,
     <<U16Max, U16Max - EndRecordSize, SignatureBytes>>}

\* well-formed archives with a comment
CommentInputs ==
    {Input(es, FALSE, 0, 0, 0, c[1], c[2], c[3]) :
        es \in SeqsUpTo(WellFormedEntries, 1), c \in SmallComments}
    \cup {Input(<<StoredA>>, FALSE, 0, 0, 0, c[1], c[2], c[3]) :
            c \in LargeComments}

\* archives whose end record has the fields of a multi-disk archive or not
DiskInputs ==
    {Input(es, FALSE, disk, cd_disk, delta, 1, 0, <<>>) :
        es \in SeqsUpTo({StoredA}, 1), disk \in {0, 1}, cd_disk \in {0, 1},
        delta \in {0, 1}}

\* files of about the size of an end record: zeros, or the end record of an
\* empty archive cut or padded to the length, or after one more byte
RawInputs ==
    {[kind |-> "raw", len |-> n, fill |-> fill] :
        n \in (EndRecordSize - RawSlack)..(EndRecordSize + RawSlack),
        fill \in {"zeros", "record", "shifted"}}

RawFile(in) ==
    LET pad  == IF in.len > EndRecordSize THEN in.len - EndRecordSize ELSE 0
        rec  == EndBlock(0, 0, 0, 0, 0, 0, pad)
        body == IF in.fill = "zeros" THEN Zeros(in.len)
                ELSE IF in.fill = "record"
                THEN SubSeq(rec \o Zeros(pad), 1, in.len)
                ELSE SubSeq(<<0>> \o EndBlock(0, 0, 0, 0, 0, 1, 0) \o Zeros(pad), 1, in.len)
    IN  [body |-> body, run |-> NoRun, clen |-> 0, spur |-> 0, island |-> <<>>]

\* "a" with a central-directory filename declared n bytes long
LongName(n) == [StoredA EXCEPT !.gfnl = n, !.wf = FALSE]

\* an archive of one entry whose central-directory filename is n bytes "a"
LongNameInput(n) ==
    [Input(<<LongName(n)>>, FALSE, 0, 0, 0, 0, 0, <<>>)
        EXCEPT !.name_run = n - 1]

\* the filename is as long as a u16 says at most, or as a u8 does
LongNameInputs == {LongNameInput(U16Max), LongNameInput(U16Max \div 256)}

\* files that end within the central directory: a stored entry, an end
\* record, and in the place of the comment a record that declares a
\* filename of `declared` bytes of which `present` are in the file
CutInputs ==
    {[kind |-> "cut", declared |-> 2, present |-> p] : p \in 0..2}

CutFile(in) ==
    LET e      == [StoredA EXCEPT !.gname = [i \in 1..in.declared |-> 97],
                                  !.gfnl = in.declared]
        local  == LocalBlock(StoredA)
        record == SubSeq(GlobalBlock(e, 0), 1, GlobalFileHeaderSize + in.present)
    IN  [body |-> local
                  \o EndBlock(0, 0, 1, 1, GlobalFileHeaderSize + in.declared,
                              Len(local) + EndRecordSize, Len(record))
                  \o record,
         run |-> NoRun, clen |-> 0, spur |-> 0, island |-> <<>>]

\* archives with an entry that its record says stored and its local header
\* deflated, alone, first or last, in both physical orders
DisagreeInputs ==
    {Input(es, rev, 0, 0, 0, 0, 0, <<>>) :
        es \in {<<DisagreeDeflated>>, <<StoredA, DisagreeDeflated>>,
                <<DisagreeDeflated, StoredB>>},
        rev \in BOOLEAN}

Inputs ==
    PlainInputs \cup CommentInputs \cup DiskInputs \cup RawInputs
    \cup LongNameInputs \cup CutInputs \cup DisagreeInputs

FileOf(in) ==
    IF in.kind = "raw" THEN RawFile(in)
    ELSE IF in.kind = "cut" THEN CutFile(in)
    ELSE Archive(in)

----------------------------------------------------------------------------
(* The state machine. *)

Init ==
    /\ input \in Inputs
    /\ zip = FileOf(input)
    /\ cursor = 0
    /\ it = "none"
    /\ new_err = NoError
    /\ end_rec = NoEndRecord
    /\ next_entry = 0
    /\ filename = None
    /\ jz_buffer = buffer
    /\ items = <<>>
    /\ ended = FALSE
    /\ calls = 0
    /\ lock = "free"
    /\ locks = 0
    /\ pc = "idle"

\* the state after jz_read_end_record returned r
Constructed(r) ==
    /\ jz_buffer' = r.buf
    /\ IF r.res.ok
       THEN /\ it' = "live"
            /\ end_rec' = r.rec
            /\ cursor' = Wide(r.rec.central_directory_offset)
            /\ new_err' = new_err
       ELSE /\ it' = "failed"
            /\ end_rec' = end_rec
            /\ cursor' = r.pos
            /\ new_err' = r.res

\* ZipIterator::new(&mut file); jz_read_end_record locks the mutex and
\* unlocks it as it returns
ZipIterator_new ==
    /\ it = "none"
    /\ Constructed(jz_read_end_record(zip, jz_buffer))
    /\ next_entry' = 0
    /\ filename' = None
    /\ locks' = locks + 1
    /\ UNCHANGED <<zip, input, items, ended, calls, lock, pc>>

\* the state after a call of next that returned r
Returned(r) ==
    /\ cursor' = r.pos
    /\ next_entry' = r.next_entry
    /\ filename' = r.filename
    /\ jz_buffer' = r.buf
    /\ items' = IF r.kind = "item" THEN Append(items, r.item) ELSE items
    /\ ended' = (r.kind = "none")
    /\ it' = IF r.kind = "panic" THEN "panicked" ELSE it

\* one call of next on the iterator; the mutex is unlocked as it returns
Next_call ==
    /\ it = "live"
    /\ calls < MaxCalls
    /\ \E inflated \in InflateResults :
        Returned(ZipIterator_next(zip, cursor, end_rec, next_entry, filename,
                                  jz_buffer, inflated))
    /\ calls' = calls + 1
    /\ locks' = IF NextLocks(end_rec, next_entry) THEN locks + 1 ELSE locks
    /\ UNCHANGED <<zip, input, new_err, end_rec, lock, pc>>

Next == ZipIterator_new \/ Next_call

Spec == Init /\ [][Next]_vars

----------------------------------------------------------------------------
(* Several threads, each with a file and an iterator of its own, and the   *)
(* one scratch buffer behind its mutex.  The variables of an iterator are  *)
(* functions of the thread here; jz_buffer is [file, buf]: the thread      *)
(* whose file the window in buf is of.                                     *)

Threads == {"t1", "t2"}

\* the files of the threads: archives whose entry is yielded, is deflated
\* or fails, an archive of no entries, a multi-disk archive and a file that
\* is too small
ThreadInputs ==
    {Input(es, FALSE, 0, 0, 0, 0, 0, <<>>) :
        es \in {<<>>, <<StoredA>>, <<DeflatedC>>, <<BadLocalSignature>>}}
    \cup {Input(<<StoredA>>, FALSE, 1, 0, 0, 1, 0, <<>>),
          [kind |-> "raw", len |-> EndRecordSize, fill |-> "record"]}

\* (mutant) the guard is not bound to a variable of the function: it is
\* dropped, and the mutex unlocked, at the end of the statement
Guard_dropped(t) == "free"

\* the holder of the mutex after let mut jz_buffer = buffer().lock().unwrap()
Guard(t) == t

\* the mutex after the guard of thread t went out of scope
Dropped(l, t) == IF l = t THEN "free" ELSE l

InitThreads ==
    /\ input \in [Threads -> ThreadInputs]
    /\ zip = [t \in Threads |-> FileOf(input[t])]
    /\ cursor = [t \in Threads |-> 0]
    /\ it = [t \in Threads |-> "none"]
    /\ new_err = [t \in Threads |-> NoError]
    /\ end_rec = [t \in Threads |-> NoEndRecord]
    /\ next_entry = [t \in Threads |-> 0]
    /\ filename = [t \in Threads |-> None]
    /\ jz_buffer = [file |-> "none", buf |-> buffer]
    /\ items = [t \in Threads |-> <<>>]
    /\ ended = [t \in Threads |-> FALSE]
    /\ calls = [t \in Threads |-> 0]
    /\ lock = "free"
    /\ locks = 0
    /\ pc = [t \in Threads |-> "idle"]

\* thread t calls ZipIterator::new: jz_read_end_record locks the mutex,
\* waiting while another thread holds it
LockEndRecord(t) ==
    /\ pc[t] = "idle" /\ it[t] = "none"
    /\ lock = "free"
    /\ lock' = Guard(t)
    /\ locks' = locks + 1
    /\ pc' = [pc EXCEPT ![t] = "end_record"]
    /\ UNCHANGED <<zip, input, cursor, it, new_err, end_rec, next_entry,
                   filename, jz_buffer, items, ended, calls>>

\* the iterator of thread t after jz_read_end_record returned r
ThreadConstructed(t, r) ==
    /\ jz_buffer' = IF r.buf = jz_buffer.buf THEN jz_buffer
                    ELSE [file |-> t, buf |-> r.buf]
    /\ IF r.res.ok
       THEN /\ it' = [it EXCEPT ![t] = "live"]
            /\ end_rec' = [end_rec EXCEPT ![t] = r.rec]
            /\ cursor' = [cursor EXCEPT ![t] = Wide(r.rec.central_directory_offset)]
            /\ new_err' = new_err
       ELSE /\ it' = [it EXCEPT ![t] = "failed"]
            /\ end_rec' = end_rec
            /\ cursor' = [cursor EXCEPT ![t] = r.pos]
            /\ new_err' = [new_err EXCEPT ![t] = r.res]

\* jz_read_end_record in thread t, under the mutex, up to its return
ReadEndRecord(t) ==
    /\ pc[t] = "end_record"
    /\ ThreadConstructed(t, jz_read_end_record(zip[t], jz_buffer.buf))
    /\ pc' = [pc EXCEPT ![t] = "return"]
    /\ UNCHANGED <<zip, input, next_entry, filename, items, ended, calls,
                   lock, locks>>

\* the iterator of thread t after a call of next that returned r
ThreadReturned(t, r) ==
    /\ cursor' = [cursor EXCEPT ![t] = r.pos]
    /\ next_entry' = [next_entry EXCEPT ![t] = r.next_entry]
    /\ filename' = [filename EXCEPT ![t] = r.filename]
    /\ jz_buffer' = [jz_buffer EXCEPT !.buf = r.buf]
    /\ items' = [items EXCEPT ![t] =
                    IF r.kind = "item" THEN Append(@, r.item) ELSE @]
    /\ ended' = [ended EXCEPT ![t] = (r.kind = "none")]
    /\ it' = [it EXCEPT ![t] = IF r.kind = "panic" THEN "panicked" ELSE @]
    /\ calls' = [calls EXCEPT ![t] = @ + 1]

\* a call of next by thread t that returns before buffer().lock()
NextEarly(t) ==
    /\ pc[t] = "idle" /\ it[t] = "live"
    /\ calls[t] < MaxThreadCalls
    /\ ~NextLocks(end_rec[t], next_entry[t])
    /\ ThreadReturned(t, ZipIterator_next(zip[t], cursor[t], end_rec[t],
                                          next_entry[t], filename[t],
                                          jz_buffer.buf, [ok |-> FALSE, data |-> <<>>]))
    /\ UNCHANGED <<zip, input, new_err, end_rec, lock, locks, pc>>

\* a call of next by thread t gets to buffer().lock(), waiting while another
\* thread holds the mutex
LockNext(t) ==
    /\ pc[t] = "idle" /\ it[t] = "live"
    /\ calls[t] < MaxThreadCalls
    /\ NextLocks(end_rec[t], next_entry[t])
    /\ lock = "free"
    /\ lock' = Guard(t)
    /\ locks' = locks + 1
    /\ pc' = [pc EXCEPT ![t] = "next"]
    /\ UNCHANGED <<zip, input, cursor, it, new_err, end_rec, next_entry,
                   filename, jz_buffer, items, ended, calls>>

\* the rest of the call of next in thread t, under the mutex, up to its
\* return: the record, the detour to the local header and the payload
NextStep(t) ==
    /\ pc[t] = "next"
    /\ \E inflated \in InflateResults :
        ThreadReturned(t, ZipIterator_next(zip[t], cursor[t], end_rec[t],
                                          next_entry[t], filename[t],
                                          jz_buffer.buf, inflated))
    /\ pc' = [pc EXCEPT ![t] = "return"]
    /\ UNCHANGED <<zip, input, new_err, end_rec, lock, locks>>

\* jz_read_end_record or next returns in thread t, whatever it returns: the
\* guard goes out of scope
Unlock(t) ==
    /\ pc[t] = "return"
    /\ lock' = Dropped(lock, t)
    /\ pc' = [pc EXCEPT ![t] = "idle"]
    /\ UNCHANGED <<zip, input, cursor, it, new_err, end_rec, next_entry,
                   filename, jz_buffer, items, ended, calls, locks>>

NextThreads ==
    \E t \in Threads :
        \/ LockEndRecord(t)
        \/ ReadEndRecord(t)
        \/ NextEarly(t)
        \/ LockNext(t)
        \/ NextStep(t)
        \/ Unlock(t)

SpecThreads == InitThreads /\ [][NextThreads]_vars

----------------------------------------------------------------------------
(* What the claims speak of. *)

\* the end record of the archive, as it was laid out
TrueEndRecord(in) ==
    LET es == in.entries
        n  == Len(es)
    IN  [signature                     |-> JZ_END_RECORD_SIGNATURE,
         disk_number                   |-> in.disk,
         central_directory_disk_number |-> in.cd_disk,
         num_entries_this_disk         |-> n + in.this_disk_delta,
         num_entries                   |-> n,
         central_directory_size        |-> RecordOffset(in, n + 1) - RecordOffset(in, 1),
         central_directory_offset      |-> RecordOffset(in, 1),
         zip_comment_length            |-> in.clen]

\* the iterator was constructed from the end record of the archive
Located ==
    input.kind = "archive" /\ it = "live" /\ end_rec = TrueEndRecord(input)

\* no call of inflate_bytes has failed
InflateWorked == \A i \in 1..Len(items) : items[i] # MZError(InflateMsg)

\* the first n items are entries
FirstOk(n) == \A i \in 1..n : i <= Len(items) /\ items[i].ok

\* the local file header at offset off of the file
LocalHeaderAt(off) ==
    DecodeLocalFileHeader([k \in 1..30 |-> ByteAt(zip, off + k - 1)])

\* the central-directory record at offset off of the file
GlobalHeaderAt(off) ==
    DecodeGlobalFileHeader([k \in 1..GlobalFileHeaderSize |-> ByteAt(zip, off + k - 1)])

\* the start of the k-th record (from 0) of the central directory: the
\* offset the end record gives, plus the declared lengths of the records
\* before it
RECURSIVE RecordStart(_)
RecordStart(k) ==
    IF k = 0 THEN Wide(end_rec.central_directory_offset)
    ELSE LET start  == RecordStart(k - 1)
             record == GlobalHeaderAt(start)
         IN  start + GlobalFileHeaderSize + record.file_name_length
                   + record.extra_field_length + record.file_comment_length

\* every call of next so far returned an entry or None
AllOk == \A i \in 1..Len(items) : items[i].ok

----------------------------------------------------------------------------
(* The claims. *)

\* C1: after a successful ZipIterator::new on a well-formed single-disk
\* archive of N entries, the calls of next yield exactly N Ok entries, the
\* i-th being the entry of the i-th record of the central directory
\* (whatever the physical order of the local headers), and then None.
C1Claim ==
    (WellFormed(input) /\ it = "live" /\ InflateWorked) =>
        LET es == input.entries
        IN  /\ Len(items) <= Len(es)
            /\ \A i \in 1..Len(items) :
                /\ i <= Len(es)
                /\ items[i].ok
                /\ items[i].filename = es[i].gname
                /\ items[i].header.offset = LocalOffset(es, input.rev, i)
                /\ (es[i].gmethod = 0 => items[i].buffer = es[i].content)
            /\ (ended => Len(items) = Len(es))

\* C2: an error item is the last item: once next has returned Some(Err(_)),
\* no later call returns an item.
C2Claim == \A i \in 1..(Len(items) - 1) : items[i].ok

\* C3: in an archive of N entries that is valid but for the local header
\* signature of its k-th entry, next yields k-1 entries, then the error
\* "invalid local file header signature" as the k-th item, and nothing
\* after it.
C3Claim ==
    (Located /\ InflateWorked) =>
        \A k \in 1..Len(input.entries) :
            ( /\ input.entries[k] = BadLocalSignature
              /\ \A i \in 1..Len(input.entries) : i # k => input.entries[i].wf )
            => /\ Len(items) <= k
               /\ \A i \in 1..Len(items) : i < k => items[i].ok
               /\ Len(items) >= k =>
                    items[k] = [ok |-> FALSE,
                                msg |-> "invalid local file header signature"]

\* C4: when the comment of a well-formed archive holds the four bytes of the
\* end record's signature, at whatever place, ZipIterator::new still reads
\* the fields of the true end record.
C4Claim ==
    ( /\ WellFormed(input)
      /\ input.island = SignatureBytes
      /\ input.clen <= JZ_BUFFER_SIZE - 22
      /\ it # "none" )
    => (it = "live" /\ end_rec = TrueEndRecord(input))

\* C5: an archive that ends with a valid end record and a comment of any
\* legal length (0..65535) has the whole record within the tail window that
\* is read, and ZipIterator::new does not fail for want of the signature.
C5Claim ==
    (input.kind = "archive" /\ input.clen \in 0..65535 /\ it # "none") =>
        /\ new_err.msg # "end record signature not found in zip"
        /\ (jz_buffer.win_len > 0 =>
                jz_buffer.win_off <= FileSize(zip) - input.clen - 22)

\* C6: the buffer of a yielded entry whose local header says Store holds
\* exactly the uncompressed_size bytes of the file that start at
\* local_header_offset + 30 + filename length + extra-field length.
C6Theorem ==
    \A i \in 1..Len(items) :
        items[i].ok =>
            LET off == items[i].header.offset
                lh  == LocalHeaderAt(off)
                at  == off + 30 + lh.file_name_length + lh.extra_field_length
            IN  lh.compression_method = 0 =>
                    items[i].buffer =
                        [j \in 1..lh.uncompressed_size |-> ByteAt(zip, at + j - 1)]

\* a stored entry with an extra field, the second of an archive laid out in
\* reverse, was yielded
C6Witness ==
    /\ Located /\ input.rev /\ Len(input.entries) = 2
    /\ input.entries[2] = StoredB
    /\ FirstOk(2)
    /\ items[2].buffer = <<120>>
    /\ items[2].header.offset = 0

\* C7: an entry whose local header declares a method other than 0 and 8
\* (here 99) makes its step yield the error "compression method 99 not
\* supported", at the entry's place: after the entries before it.
C7Theorem ==
    Located =>
        \A k \in 1..Len(items) :
            ( /\ k <= Len(input.entries)
              /\ input.entries[k].lmethod = 99
              /\ FirstOk(k - 1) )
            => items[k] = [ok |-> FALSE,
                           msg |-> "compression method 99 not supported"]

\* the second entry declares method 99: one entry, then the error
C7Witness ==
    /\ Located /\ Len(input.entries) = 2 /\ input.entries[2] = Method99
    /\ Len(items) = 2
    /\ items[1].ok
    /\ items[2] = [ok |-> FALSE, msg |-> "compression method 99 not supported"]

\* C8: an end record with disk_number # 0, central_directory_disk_number # 0
\* or a total entry count other than the count on this disk makes
\* ZipIterator::new fail with "multifile zips not supported!": there is no
\* iterator, and no entry is yielded.
C8Theorem ==
    ( /\ input.kind = "archive"
      /\ input.island = <<>>
      /\ input.clen <= JZ_BUFFER_SIZE - 22
      /\ FileSize(zip) > 22
      /\ (input.disk # 0 \/ input.cd_disk # 0 \/ input.this_disk_delta # 0)
      /\ it # "none" )
    => /\ it = "failed"
       /\ new_err = [ok |-> FALSE, msg |-> "multifile zips not supported!"]
       /\ items = <<>>
       /\ calls = 0
       /\ ~ENABLED Next_call

\* new has failed on an archive whose two entry counts differ
C8Witness ==
    /\ input.kind = "archive" /\ input.this_disk_delta = 1
    /\ input.disk = 0 /\ input.cd_disk = 0
    /\ Len(input.entries) = 1
    /\ it = "failed"
    /\ new_err.msg = "multifile zips not supported!"

\* C9: on a file of 22 bytes or fewer ZipIterator::new fails with "input
\* file too small" before the tail window is read; a file of 23 bytes or
\* more does not fail so.
C9Theorem ==
    it # "none" =>
        /\ FileSize(zip) <= 22 =>
            /\ it = "failed"
            /\ new_err = [ok |-> FALSE, msg |-> "input file too small"]
            /\ jz_buffer = buffer
        /\ FileSize(zip) >= 23 => new_err.msg # "input file too small"

\* new has failed on a file of exactly 22 bytes, an end record and no more
C9Witness ==
    /\ input.kind = "raw" /\ input.fill = "record" /\ FileSize(zip) = 22
    /\ it = "failed"
    /\ new_err.msg = "input file too small"

\* C10: the buffer of a yielded entry whose local header says Deflate has
\* the length of the declared uncompressed_size, whatever inflate_bytes
\* returned.
C10Claim ==
    \A i \in 1..Len(items) :
        items[i].ok =>
            LET lh == LocalHeaderAt(items[i].header.offset)
            IN  lh.compression_method = 8 =>
                    /\ Len(items[i].buffer) = lh.uncompressed_size
                    /\ Len(items[i].buffer) = items[i].header.uncompressed_size

\* C11: after a successful ZipIterator::new and after every successful step
\* of next, the handle is at the start of the next_entry-th record of the
\* central directory: central_directory_offset plus the declared lengths
\* (fixed part, filename, extra field, comment) of the records before it.
C11Claim ==
    (it = "live" /\ AllOk) => cursor = RecordStart(next_entry)

\* C12: next_entry never exceeds end_rec.num_entries, and no call of next
\* panics.
C12Theorem ==
    /\ it # "panicked"
    /\ it = "live" => next_entry <= end_rec.num_entries

\* both entries of an archive of two were yielded, and next returned None
C12Witness ==
    /\ Located /\ Len(input.entries) = 2
    /\ FirstOk(2)
    /\ next_entry = 2 /\ end_rec.num_entries = 2
    /\ ended

\* C13: a local header with a valid signature, method Store and
\* compressed_size # uncompressed_size makes the step fail with an error
\* that differs from the error of a signature mismatch, and no byte of the
\* payload is read.
C13Claim ==
    Located =>
        \A k \in 1..Len(items) :
            ( /\ k <= Len(input.entries)
              /\ input.entries[k] = StoredMismatch
              /\ FirstOk(k - 1) )
            => /\ ~items[k].ok
               /\ items[k] # MZError("invalid local file header signature")
               /\ (k = Len(items)
                    => cursor = PayloadOffset(input.entries, input.rev, k))

\* C14: a central-directory filename that is not valid UTF-8 (the byte 255)
\* makes the step fail with the UTF-8 error, even when the filename of the
\* local header is valid UTF-8.
C14Claim ==
    Located =>
        \A k \in 1..Len(items) :
            ( /\ k <= Len(input.entries)
              /\ input.entries[k] = BadGlobalName
              /\ FirstOk(k - 1) )
            => items[k] = MZError(Utf8Msg)

\* C16: no declared filename length of a central-directory record (a u16:
\* 0..65535) makes a step fail with "file name too long", and the bytes
\* written into the scratch buffer, the terminator included, lie within
\* the 65536 bytes of the buffer.
C16Claim ==
    /\ \A i \in 1..Len(items) : items[i] # MZError("file name too long")
    /\ Len(jz_buffer.over) <= JZ_BUFFER_SIZE

\* C17: the filename of a yielded entry and the method and size its payload
\* is decoded with are those of the local header at the record's offset;
\* the record's own filename, method and sizes only fill the header of the
\* entry: an archive whose two copies disagree is decoded as the local copy
\* says, without error.
C17Theorem ==
    Located =>
        \A k \in 1..Len(items) :
            /\ (k <= Len(input.entries) /\ FirstOk(k)) =>
                    LET e == input.entries[k]
                    IN  /\ items[k].filename = e.lname
                        /\ e.lmethod = 0 =>
                                items[k].buffer = SubSeq(e.data, 1, e.lusize)
                        /\ e.lmethod = 8 =>
                                [ok |-> TRUE, data |-> items[k].buffer]
                                    \in InflateResults
                        /\ items[k].header.compression_method = e.gmethod
                        /\ items[k].header.compressed_size = e.gcsize
                        /\ items[k].header.uncompressed_size = e.gusize
                        /\ items[k].header.offset =
                                LocalOffset(input.entries, input.rev, k)
            /\ ( /\ k <= Len(input.entries)
                 /\ FirstOk(k - 1)
                 /\ input.entries[k] \in {Disagree, DisagreeDeflated}
                 /\ items[k] # MZError(InflateMsg) )
               => items[k].ok

\* an entry was yielded whose record says method 99, 7 bytes and "z" and
\* whose local header says stored, 2 bytes and "a"
C17Witness ==
    /\ Located /\ Len(input.entries) = 2 /\ input.rev
    /\ input.entries[2] = Disagree
    /\ FirstOk(2)
    /\ items[2].filename = <<97>>
    /\ items[2].buffer = <<104, 105>>
    /\ items[2].header.compression_method = 99
    /\ items[2].header.uncompressed_size = 7

\* C18: a call of next changes next_entry only when it yields an entry,
\* and then by exactly one; a call that returns an error leaves next_entry
\* and end_rec as they were, and the handle where the failing read stopped:
\* after a local header with a wrong signature, at the end of the fixed
\* part of that header.
C18Theorem ==
    [][ calls' # calls =>
          /\ end_rec' = end_rec
          /\ IF Len(items') > Len(items) /\ items'[Len(items')].ok
             THEN next_entry' = next_entry + 1
             ELSE next_entry' = next_entry
          /\ ( /\ Located /\ AllOk
               /\ next_entry < Len(input.entries)
               /\ input.entries[next_entry + 1] = BadLocalSignature )
             => /\ Len(items') = Len(items) + 1
                /\ ~items'[Len(items')].ok
                /\ cursor' = LocalOffset(input.entries, input.rev, next_entry + 1)
                              + LocalFileHeaderSize
                /\ cursor' # cursor
      ]_vars

\* the second call returned the error of a local header: next_entry is
\* still 1 and the handle is after the 30 bytes of that header
C18Witness ==
    /\ Located /\ ~input.rev
    /\ input.entries = <<StoredA, BadLocalSignature>>
    /\ Len(items) = 2 /\ items[1].ok /\ ~items[2].ok
    /\ next_entry = 1
    /\ cursor = Len(LocalBlock(StoredA)) + LocalFileHeaderSize

\* C19: once next_entry = end_rec.num_entries, every call of next returns
\* None and leaves the handle, next_entry and the scratch buffer as they
\* were, without locking the mutex; an archive of no entries gets None from
\* the first call, the central directory not read.
C19Theorem ==
    [][ (calls' # calls /\ next_entry = end_rec.num_entries) =>
          /\ ended'
          /\ items' = items
          /\ cursor' = cursor
          /\ next_entry' = next_entry
          /\ end_rec' = end_rec
          /\ jz_buffer' = jz_buffer
          /\ locks' = locks
          /\ lock' = lock
      ]_vars

\* two calls of next on an archive of no entries returned None: the mutex
\* was locked once, by ZipIterator::new
C19Witness ==
    /\ Located /\ input.entries = <<>>
    /\ calls = 2 /\ ended /\ items = <<>>
    /\ locks = 1
    /\ cursor = Wide(end_rec.central_directory_offset)

\* thread t is within the locked region of jz_read_end_record or of next
InRegion(t) == pc[t] \in {"end_record", "next", "return"}

\* thread t makes no more calls
Finished(t) ==
    /\ pc[t] = "idle"
    /\ \/ it[t] \in {"failed", "panicked"}
       \/ it[t] = "live" /\ calls[t] = MaxThreadCalls

\* thread t can take a step: it is within a locked region, where nothing
\* waits (ReadEndRecord, NextStep and Unlock have no other condition), or
\* it can start or finish a call
CanStep(t) ==
    \/ InRegion(t)
    \/ ENABLED (LockEndRecord(t) \/ NextEarly(t) \/ LockNext(t))

\* C15: at most one thread at a time is within the locked region of
\* jz_read_end_record or of a step of next; the thread within it holds the
\* mutex from the lock to the return, through the whole step (the record,
\* the detour to the local header, the payload); the mutex is unlocked at
\* every return, those with an error too; and threads that walk files of
\* their own never all wait: while a thread has calls to make, some thread
\* can take a step.
C15Theorem ==
    /\ [](/\ \A t1, t2 \in Threads :
               (InRegion(t1) /\ InRegion(t2)) => t1 = t2
          /\ \A t \in Threads : InRegion(t) <=> lock = t
          /\ (\A t \in Threads : Finished(t)) \/ (\E t \in Threads : CanStep(t)))
    /\ [][ \A t \in Threads :
             ( /\ pc'[t] # pc[t]
               /\ \/ jz_buffer' # jz_buffer
                  \/ cursor'[t] # cursor[t]
                  \/ it'[t] # it[t]
                  \/ items'[t] # items[t]
                  \/ next_entry'[t] # next_entry[t] )
             => (lock = t /\ lock' = t)
      ]_vars

\* thread t1 is about to return an error from next and still holds the
\* mutex, while thread t2 waits for it at the start of a call of next
C15Witness ==
    /\ pc["t1"] = "return" /\ lock = "t1"
    /\ Len(items["t1"]) = 1 /\ ~items["t1"][1].ok
    /\ pc["t2"] = "idle" /\ it["t2"] = "live"
    /\ NextLocks(end_rec["t2"], next_entry["t2"])
    /\ ~ENABLED LockNext("t2")

====
